---- MODULE Spec2Model ----
(***************************************************************************)
(* DDNS Firewall Synchronizer (src/src/main.rs): the synchronization       *)
(* engine sync_firewall with its crash-recovery cache, the flock based     *)
(* exclusion lock, and the iptables rule set it reconciles.                *)
(*                                                                         *)
(* One process is one invocation of the binary.  Every step that touches   *)
(* the cache file or calls iptables is its own action, so a crash can fall *)
(* between any two of them.                                                *)
(***************************************************************************)
EXTENDS Integers, Sequences, FiniteSets, TLC

\* ------------------------------------------------------------------ bounds
\* Number of concurrently started invocations of the binary.
NumProcs == 2
\* Longest configuration (entries returned by parse_config) the model draws.
MaxEntries == 2

Procs == 1..NumProcs
Addrs == {"a1", "a2"}
Ports == {22, 80}
Hosts == {"h1", "h2"}

\* The entries a configuration is drawn from: a dynamic host on the SSH port
\* and a host with one address on port 80.
DdnsEntry ==
    {[hostname |-> "h1", port |-> 22], [hostname |-> "h2", port |-> 80]}

\* The addresses the resolver can answer for a hostname.
Answers(h) == IF h = "h1" THEN Addrs ELSE {"a1"}

\* (Ipv4Addr, u16): the identity of one managed rule.
Keys == Addrs \X Ports
PortOf(k) == k[2]

\* ------------------------------------------------------- program constants
MAX_ENTRIES == 100
MAX_RULES == 100
MAX_LOOP_ITERATIONS == 200

VARIABLES
    \* environment
    fw,        \* live INPUT chain: number of copies of each tagged rule
    disk,      \* content of /etc/ddnsfw/service.cache
    lock,      \* holder of the flock on /etc/ddnsfw/.lock (0: free)
    \* one invocation (process) each
    pc,        \* position in sync_firewall
    worker,    \* the blocking-flock thread of acquire_lock
    outcome,   \* how sync_firewall returned
    cache,     \* the in-memory Cache
    entries,   \* parse_config's result
    existing,  \* existing_rules
    desired,   \* desired_rules
    toAdd,     \* rules_to_add
    idx,       \* position of the running loop
    cur,       \* key of the firewall call in flight (Option: a set of <= 1)
    todo,      \* Phase 3: rules of existing_rules not yet visited
    \* observation of the current run (history, never read by the program)
    fw0,       \* tagged rules present when the run got the lock
    resolvedK, \* keys (a, p) of entries that resolved to a
    dnsFail,   \* ports of entries whose resolution failed
    ensured,   \* resolved keys found present or added successfully
    addFail,   \* keys whose add failed on both attempts
    delFail,   \* keys whose delete failed
    dels,      \* keys for which deleteRule was issued
    lateAdd,   \* an addRule was issued after a deleteRule
    touched,   \* the run read/wrote the cache file or called iptables
    rec,       \* what recovery did
    recK,      \* the pending key recovery found (Option)
    saved,     \* every save of the run so far reached the disk
    midCrash,  \* a run crashed while the disk named an operation, and
               \* the disk has named one ever since
    lostSave,  \* a save failed, and the disk has named an operation
               \* ever since
    \* observation across runs (history, followed by SpecRuns only)
    ans,       \* the answers the resolver gave to the run, entry by entry
    prev,      \* configuration and answers of the run before, if that run
               \* went through with every call succeeding (Option)
    \* the cache file as text (followed by SpecSave only)
    file,      \* text of /etc/ddnsfw/service.cache (Option: no file yet)
    tmp,       \* text of /etc/ddnsfw/service.cache.tmp (Option)
    spc,       \* position of the process in Cache::save
    before,    \* history: the file when the save in progress began
    want,      \* history: the contents that save can format
    \* one scan of an input (followed by SpecScan only)
    scan,      \* the scanning function and its counters
    \* the firewall calls of the current run (history, followed by SpecCalls
    \* only)
    calls,     \* how many calls of each kind the run has issued
    \* abandoned resolver threads (followed by SpecLate only)
    late,      \* what the threads a run gave up on will send
    dropped    \* history: such a thread has sent its result

envVars  == <<fw, disk, lock>>
progVars == <<pc, worker, outcome, cache, entries, existing, desired, toAdd,
              idx, cur, todo>>
histVars == <<fw0, resolvedK, dnsFail, ensured, addFail, delFail, dels,
              lateAdd, touched, rec, recK, saved,
                   midCrash, lostSave>>
obsVars  == <<ans, prev>>
fileVars == <<file, tmp, spc, before, want>>
scanVars == <<scan>>
callVars == <<calls>>
lateVars == <<late, dropped>>
vars == <<envVars, progVars, histVars, obsVars, fileVars, scanVars, callVars,
          lateVars>>

\* ------------------------------------------------------------------ Cache
\* Cache::new
NewCache == [state |-> "Idle", rules |-> {}, pending |-> {}]

\* Cache::save's content: STATE:, RULES: (at most MAX_RULES of them), PENDING:
RulesToSave(rs) ==
    IF Cardinality(rs) <= MAX_RULES THEN rs
    ELSE CHOOSE s \in SUBSET rs : Cardinality(s) = MAX_RULES

StateStr(s) ==
    CASE s = "Idle" -> "IDLE"
      [] s = "Adding" -> "ADDING"
      [] s = "Deleting" -> "DELETING"

Content(c) ==
    [state |-> StateStr(c.state), rules |-> RulesToSave(c.rules),
     pending |-> c.pending]

\* Cache::load: an unrecognized STATE: tag collapses to Idle
ParseState(tag) ==
    CASE tag = "ADDING" -> "Adding"
      [] tag = "DELETING" -> "Deleting"
      [] OTHER -> "Idle"

Load(d) ==
    [state |-> ParseState(d.state), rules |-> RulesToSave(d.rules),
     pending |-> d.pending]

\* Cache::save: write temp, flush, rename; every failure is swallowed, and then
\* the file keeps its previous content.  A save fails for good: once the
\* directory stopped taking writes (ok = FALSE) it does so for the rest of
\* the run.
SaveResults(c, ok) == IF ok THEN {Content(c), disk} ELSE {disk}

\* seeded fault: set_idle that clears the pending key only
set_idle_keepstate(c) == [c EXCEPT !.pending = {}]

set_idle(c) == [c EXCEPT !.state = "Idle", !.pending = {}]

\* seeded fault: set_adding that records the state without the key
set_adding_nopending(c, k) == [c EXCEPT !.state = "Adding"]

set_adding(c, k) == [c EXCEPT !.state = "Adding", !.pending = {k}]

set_deleting(c, k) == [c EXCEPT !.state = "Deleting", !.pending = {k}]

\* seeded fault: Cache::add_rule without the insert
cache_add_rule_noinsert(c, k) == [c EXCEPT !.state = "Idle", !.pending = {}]

cache_add_rule(c, k) ==
    [c EXCEPT !.rules = IF Cardinality(@) < MAX_RULES THEN @ \cup {k} ELSE @,
              !.state = "Idle", !.pending = {}]

cache_remove_rule(c, k) ==
    [c EXCEPT !.rules = @ \ {k}, !.state = "Idle", !.pending = {}]

\* --------------------------------------------------------------- iptables
\* the tagged rules iptables -S lists
Live == {k \in Keys : fw[k] > 0}

\* rule_exists: iptables -C succeeds exactly when a matching rule is there
rule_exists(k) == fw[k] > 0

\* get_existing_rules: the listing, or the empty set when iptables -S fails
ListResults == {Live, {}}

\* rules of rs on port p (the "keep existing rules for this port" loops)
OnPort(rs, p) == {k \in rs : PortOf(k) = p}

\* ------------------------------------------------------------------ config
\* parse_config's possible results: at most MAX_ENTRIES entries, in file order
Configs ==
    UNION {[1..n -> DdnsEntry] : n \in 0..(IF MaxEntries < MAX_ENTRIES
                                       THEN MaxEntries ELSE MAX_ENTRIES)}

\* ------------------------------------------------------------------- Init
Fresh(f, p, v) == [f EXCEPT ![p] = v]

\* the run has issued no firewall call
NoCalls == [rchk |-> 0, radd |-> 0, add |-> [k \in Keys |-> 0],
            del |-> [k \in Keys |-> 0], again |-> FALSE, list |-> 0]

\* no scan is in progress
NoScan == [fn |-> "none", iteration |-> 0, seen |-> 0, len |-> 0,
           warned |-> FALSE, cut |-> FALSE, done |-> FALSE]

Init ==
    /\ fw = [k \in Keys |-> 0]
    /\ disk = Content(NewCache)
    /\ lock = 0
    /\ pc = [p \in Procs |-> "idle"]
    /\ worker = [p \in Procs |-> "none"]
    /\ outcome = [p \in Procs |-> "none"]
    /\ cache = [p \in Procs |-> NewCache]
    /\ entries = [p \in Procs |-> <<>>]
    /\ existing = [p \in Procs |-> {}]
    /\ desired = [p \in Procs |-> {}]
    /\ toAdd = [p \in Procs |-> <<>>]
    /\ idx = [p \in Procs |-> 1]
    /\ cur = [p \in Procs |-> {}]
    /\ todo = [p \in Procs |-> {}]
    /\ fw0 = [p \in Procs |-> {}]
    /\ resolvedK = [p \in Procs |-> {}]
    /\ dnsFail = [p \in Procs |-> {}]
    /\ ensured = [p \in Procs |-> {}]
    /\ addFail = [p \in Procs |-> {}]
    /\ delFail = [p \in Procs |-> {}]
    /\ dels = [p \in Procs |-> {}]
    /\ lateAdd = [p \in Procs |-> FALSE]
    /\ touched = [p \in Procs |-> FALSE]
    /\ rec = [p \in Procs |-> "none"]
    /\ saved = [p \in Procs |-> TRUE]
    /\ recK = [p \in Procs |-> {}]
    /\ midCrash = FALSE
    /\ lostSave = FALSE
    /\ ans = [p \in Procs |-> <<>>]
    /\ prev = {}
    /\ file = {}
    /\ tmp = {}
    /\ spc = "none"
    /\ before = {}
    /\ want = {}
    /\ scan = NoScan
    /\ calls = NoCalls
    /\ late = [p \in Procs |-> {}]
    /\ dropped = FALSE

\* ------------------------------------------------------------------ helpers
\* Cache helper followed by its save(): the new in-memory state c, and on disk
\* either c's content or, when the save failed, what was there before.
Persist(p, c) ==
    \E d \in SaveResults(c, saved[p]) :
        /\ disk' = d
        /\ cache' = Fresh(cache, p, c)
        /\ saved' = Fresh(saved, p, d = Content(c))
        /\ midCrash' = (d.state # "IDLE" /\ midCrash)
        /\ lostSave' = (d.state # "IDLE" /\ (lostSave \/ d # Content(c)))
        /\ touched' = Fresh(touched, p, TRUE)

\* The process is gone: its memory, its threads and its lock with it.
\* seeded fault: the lock file kept open (and locked) past the end of the run
drop_lock_leak(l, p) == l

\* _lock (if the process has it) goes out of scope, and the process ends:
\* the file is closed, which releases its flock
drop_lock(l, p) == IF l = p THEN 0 ELSE l

Gone(p) ==
    /\ pc' = Fresh(pc, p, "idle")
    /\ worker' = Fresh(worker, p, "none")
    /\ outcome' = Fresh(outcome, p, "none")
    /\ cache' = Fresh(cache, p, NewCache)
    /\ entries' = Fresh(entries, p, <<>>)
    /\ existing' = Fresh(existing, p, {})
    /\ desired' = Fresh(desired, p, {})
    /\ toAdd' = Fresh(toAdd, p, <<>>)
    /\ idx' = Fresh(idx, p, 1)
    /\ cur' = Fresh(cur, p, {})
    /\ todo' = Fresh(todo, p, {})
    /\ fw0' = Fresh(fw0, p, {})
    /\ resolvedK' = Fresh(resolvedK, p, {})
    /\ dnsFail' = Fresh(dnsFail, p, {})
    /\ ensured' = Fresh(ensured, p, {})
    /\ addFail' = Fresh(addFail, p, {})
    /\ delFail' = Fresh(delFail, p, {})
    /\ dels' = Fresh(dels, p, {})
    /\ lateAdd' = Fresh(lateAdd, p, FALSE)
    /\ touched' = Fresh(touched, p, FALSE)
    /\ rec' = Fresh(rec, p, "none")
    /\ recK' = Fresh(recK, p, {})
    /\ saved' = Fresh(saved, p, TRUE)
    /\ lock' = drop_lock(lock, p)

\* sync_firewall returns with its locals still alive
Return(p, how) ==
    /\ pc' = Fresh(pc, p, "ret")
    /\ outcome' = Fresh(outcome, p, how)

\* ------------------------------------------------------------------- main
\* main: !is_root() leaves through exit_err before sync_firewall is entered
NotRoot(p) ==
    /\ pc[p] = "idle"
    /\ Return(p, "notroot")
    /\ UNCHANGED <<envVars, worker, cache, entries, existing, desired,
                   toAdd, idx, cur, todo, histVars>>

\* the exit status of the process: exit_err exits with 1, and it is called
\* on the way to sync_firewall only when is_root() is false; every return of
\* sync_firewall makes main return, which is status 0
ExitStatus(how) == IF how = "notroot" THEN 1 ELSE 0

\* ------------------------------------------------------------ acquire_lock
\* seeded fault: the non-blocking attempt taken as granted whatever it returns
flock_nb_always(l) == TRUE

\* flock(fd, LOCK_EX | LOCK_NB) == 0
flock_nb(l) == l = 0

\* seeded fault: the catch-all arm of the match returning Some(lock_file)
acquire_lock_result_any(res) == TRUE

\* match rx.recv_timeout(30 s) { Ok(0) => Some(lock_file), _ => None }
acquire_lock_result(res) == res = "ok0"

\* acquire_lock, the non-blocking attempt succeeds: Some(lock_file).  The
\* run starts (fw0) when it holds the lock.
LockNow(p) ==
    /\ pc[p] = "idle"
    /\ flock_nb(lock)
    /\ lock' = p
    /\ pc' = Fresh(pc, p, "find")
    /\ fw0' = Fresh(fw0, p, Live)
    /\ UNCHANGED <<fw, disk, worker, outcome, cache, entries, existing,
                   desired, toAdd, idx, cur, todo, resolvedK, dnsFail,
                   ensured, addFail, delFail, dels, lateAdd, touched, rec,
                   recK, saved, midCrash, lostSave>>

\* acquire_lock, the lock is held elsewhere: spawn the blocking worker, wait
LockBusy(p) ==
    /\ pc[p] = "idle"
    /\ ~flock_nb(lock)
    /\ worker' = Fresh(worker, p, "blocked")
    /\ pc' = Fresh(pc, p, "wait")
    /\ UNCHANGED <<envVars, outcome, cache, entries, existing, desired,
                   toAdd, idx, cur, todo, histVars>>

\* acquire_lock, the lock file cannot be opened: .ok()? returns None
LockOpenFail(p) ==
    /\ pc[p] = "idle"
    /\ Return(p, "nolock")
    /\ UNCHANGED <<envVars, worker, cache, entries, existing, desired,
                   toAdd, idx, cur, todo, histVars>>

\* The end of the 30 s wait: the worker's flock returned 0, returned an
\* error, or nothing arrived in time.
LockWait(p, res) ==
    /\ pc[p] = "wait"
    /\ res = "ok0" => lock = 0
    /\ lock' = IF res = "ok0" THEN p ELSE lock
    /\ worker' = Fresh(worker, p, IF res = "timeout" THEN "blocked" ELSE "none")
    /\ IF acquire_lock_result(res)
       THEN /\ pc' = Fresh(pc, p, "find")
            /\ fw0' = Fresh(fw0, p, Live)
            /\ UNCHANGED outcome
       ELSE /\ Return(p, "nolock")
            /\ UNCHANGED fw0
    /\ UNCHANGED <<fw, disk, cache, entries, existing, desired, toAdd, idx,
                   cur, todo, resolvedK, dnsFail, ensured, addFail, delFail,
                   dels, lateAdd, touched, rec, recK, saved, midCrash,
                   lostSave>>

\* find_iptables
FindIptables(p) ==
    /\ pc[p] = "find"
    /\ \/ /\ pc' = Fresh(pc, p, "load")
          /\ UNCHANGED outcome
       \/ Return(p, "noiptables")
    /\ UNCHANGED <<envVars, worker, cache, entries, existing, desired, toAdd,
                   idx, cur, todo, histVars>>

\* ------------------------------------------------------- load and recovery
\* Cache::load, and the test cache.state != Idle
LoadCache(p) ==
    /\ pc[p] = "load"
    /\ cache' = Fresh(cache, p, Load(disk))
    /\ touched' = Fresh(touched, p, TRUE)
    /\ pc' = Fresh(pc, p, IF Load(disk).state # "Idle" THEN "recover"
                          ELSE "config")
    /\ UNCHANGED <<envVars, worker, outcome, entries, existing, desired,
                   toAdd, idx, cur, todo, fw0, resolvedK, dnsFail, ensured,
                   addFail, delFail, dels, lateAdd, rec, recK, saved,
                   midCrash, lostSave>>

\* recover_from_crash up to its first firewall-mutating call
Recover(p) ==
    /\ pc[p] = "recover"
    /\ recK' = Fresh(recK, p, cache[p].pending)
    /\ LET c == cache[p] IN
       IF c.state = "Adding" /\ c.pending # {}
       THEN LET k == CHOOSE x \in c.pending : TRUE IN
            IF ~rule_exists(k)
            THEN /\ cur' = Fresh(cur, p, {k})
                 /\ pc' = Fresh(pc, p, "rec_add")
                 /\ touched' = Fresh(touched, p, TRUE)
                 /\ UNCHANGED <<disk, cache, saved, midCrash, lostSave, rec>>
            ELSE /\ Persist(p, cache_add_rule(c, k))
                 /\ rec' = Fresh(rec, p, "present")
                 /\ pc' = Fresh(pc, p, "config")
                 /\ UNCHANGED cur
       ELSE /\ Persist(p, set_idle(c))
            /\ rec' = Fresh(rec, p, IF c.state = "Deleting" THEN "deleting"
                                    ELSE "nopending")
            /\ pc' = Fresh(pc, p, "config")
            /\ UNCHANGED cur
    /\ UNCHANGED <<fw, lock, worker, outcome, entries, existing, desired,
                   toAdd, idx, todo, fw0, resolvedK, dnsFail, ensured,
                   addFail, delFail, dels, lateAdd>>

\* add_rule (iptables -I INPUT 1 ...): one more copy of k, or a failure
AddCall(p, k, okPc, failPc) ==
    /\ lateAdd' = Fresh(lateAdd, p, lateAdd[p] \/ dels[p] # {})
    /\ touched' = Fresh(touched, p, TRUE)
    /\ \/ /\ fw' = [fw EXCEPT ![k] = @ + 1]
          /\ pc' = Fresh(pc, p, okPc)
       \/ /\ pc' = Fresh(pc, p, failPc)
          /\ UNCHANGED fw

\* recovery: add_rule(pending), once
RecAdd(p) ==
    /\ pc[p] = "rec_add"
    /\ \E k \in cur[p] : AddCall(p, k, "rec_commit", "rec_fail")
    /\ UNCHANGED <<disk, lock, worker, outcome, cache, entries, existing,
                   desired, toAdd, idx, cur, todo, fw0, resolvedK, dnsFail,
                   ensured, addFail, delFail, dels, rec, recK, saved,
                   midCrash, lostSave>>

\* recovery: cache.add_rule after the successful re-add
RecCommit(p) ==
    /\ pc[p] = "rec_commit"
    /\ \E k \in cur[p] : Persist(p, cache_add_rule(cache[p], k))
    /\ rec' = Fresh(rec, p, "added")
    /\ cur' = Fresh(cur, p, {})
    /\ pc' = Fresh(pc, p, "config")
    /\ UNCHANGED <<fw, lock, worker, outcome, entries, existing, desired,
                   toAdd, idx, todo, fw0, resolvedK, dnsFail, ensured,
                   addFail, delFail, dels, lateAdd, recK>>

\* recovery: cache.set_idle after the failed re-add
RecFail(p) ==
    /\ pc[p] = "rec_fail"
    /\ Persist(p, set_idle(cache[p]))
    /\ rec' = Fresh(rec, p, "addfail")
    /\ cur' = Fresh(cur, p, {})
    /\ pc' = Fresh(pc, p, "config")
    /\ UNCHANGED <<fw, lock, worker, outcome, entries, existing, desired,
                   toAdd, idx, todo, fw0, resolvedK, dnsFail, ensured,
                   addFail, delFail, dels, lateAdd, recK>>

\* ------------------------------------------------------- reconciliation
\* seeded fault: Phase 3 without the desired_rules.contains test
ToDeleteAll(td, ds) == td

\* Phase 3 visits the listed rules and deletes those not desired
ToDelete(td, ds) == td \ ds

\* seeded fault: Phase 3 left after its first rule
Phase3PcStop(td, ds) == "fin"

\* Where the run goes when a loop head is reached: the for loops of Phase 1,
\* 2 and 3 with their MAX_LOOP_ITERATIONS breaks, and the final set_idle.
Phase3Pc(td, ds) == IF ToDelete(td, ds) = {} THEN "fin" ELSE "p3"

\* seeded fault: the Phase 2 loop protection breaking after one iteration
Phase2PcBreak(i, q, td, ds) ==
    IF i <= Len(q) /\ i <= 1 THEN "p2" ELSE Phase3Pc(td, ds)

Phase2Pc(i, q, td, ds) ==
    IF i <= Len(q) /\ i <= MAX_LOOP_ITERATIONS THEN "p2" ELSE Phase3Pc(td, ds)

Phase1Pc(i, es, q, td, ds) ==
    IF i <= Len(es) /\ i <= MAX_LOOP_ITERATIONS THEN "p1"
    ELSE Phase2Pc(1, q, td, ds)

\* seeded fault: the empty configuration not told from a non-empty one
is_empty_never(es) == FALSE

\* entries.is_empty()
is_empty(es) == es = <<>>

\* parse_config, and the early return on an empty configuration
ParseConfig(p) ==
    /\ pc[p] = "config"
    /\ \E es \in Configs :
        /\ entries' = Fresh(entries, p, es)
        /\ IF is_empty(es)
           THEN Return(p, "noentries")
           ELSE /\ pc' = Fresh(pc, p, "list")
                /\ UNCHANGED outcome
    /\ UNCHANGED <<envVars, worker, cache, existing, desired, toAdd, idx,
                   cur, todo, histVars>>

\* get_existing_rules; cache.rules = existing_rules; cache.save()
ListRules(p) ==
    /\ pc[p] = "list"
    /\ \E ex \in ListResults :
        /\ existing' = Fresh(existing, p, ex)
        /\ todo' = Fresh(todo, p, ex)
        /\ Persist(p, [cache[p] EXCEPT !.rules = ex])
    /\ desired' = Fresh(desired, p, {})
    /\ toAdd' = Fresh(toAdd, p, <<>>)
    /\ idx' = Fresh(idx, p, 1)
    /\ pc' = Fresh(pc, p, "p1")
    /\ UNCHANGED <<fw, lock, worker, outcome, entries, cur, fw0, resolvedK,
                   dnsFail, ensured, addFail, delFail, dels, lateAdd, rec,
                   recK>>

\* resolve_dns_timeout: Some(address), or None on a timeout, a non-zero exit
\* or unparsable output
ResolveResults(h) == {{}} \cup {{a} : a \in Answers(h)}

\* seeded fault: one channel for all the resolver threads of the run, so that
\* a call can receive what the thread of an earlier call sends late
recv_timeout_shared(h, lt) == ResolveResults(h) \cup lt

\* rx.recv_timeout(timeout).ok().flatten() on the channel created by this
\* call of resolve_dns_timeout: what the thread of this call sends in time,
\* or None; the threads of earlier calls (lt) hold other channels
recv_timeout(h, lt) == ResolveResults(h)

\* seeded fault: a failed resolution that keeps nothing
DnsKeepNone(ex, e) == {}

\* the rules a failed resolution keeps: every existing rule of the entry's port
DnsKeep(ex, e) == OnPort(ex, e.port)

\* Phase 1, one entry whose resolution returned r: keep, skip or queue
Phase1Entry(p, r) ==
    /\ pc[p] = "p1"
    /\ LET e == entries[p][idx[p]] IN
       /\ r \in recv_timeout(e.hostname, late[p])
       /\ IF r = {}
          THEN /\ desired' = Fresh(desired, p,
                       desired[p] \cup DnsKeep(existing[p], e))
               /\ dnsFail' = Fresh(dnsFail, p, dnsFail[p] \cup {e.port})
               /\ pc' = Fresh(pc, p, Phase1Pc(idx[p] + 1, entries[p], toAdd[p],
                       todo[p], desired[p] \cup DnsKeep(existing[p], e)))
               /\ UNCHANGED <<toAdd, resolvedK, ensured>>
          ELSE LET k  == <<CHOOSE a \in r : TRUE, e.port>>
                   ds == desired[p] \cup {k}
                   q  == IF k \in existing[p] \/ rule_exists(k) THEN toAdd[p]
                         ELSE Append(toAdd[p], k)
               IN /\ desired' = Fresh(desired, p, ds)
                  /\ toAdd' = Fresh(toAdd, p, q)
                  /\ resolvedK' = Fresh(resolvedK, p, resolvedK[p] \cup {k})
                  /\ ensured' = Fresh(ensured, p,
                          IF q = toAdd[p] THEN ensured[p] \cup {k}
                          ELSE ensured[p])
                  /\ pc' = Fresh(pc, p,
                          Phase1Pc(idx[p] + 1, entries[p], q, todo[p], ds))
                  /\ UNCHANGED dnsFail
    /\ idx' = Fresh(idx, p,
            IF /\ idx[p] + 1 <= Len(entries[p])
               /\ idx[p] + 1 <= MAX_LOOP_ITERATIONS
            THEN idx[p] + 1 ELSE 1)
    /\ UNCHANGED <<envVars, worker, outcome, cache, entries, existing, cur,
                   todo, fw0, addFail, delFail, dels, lateAdd, touched, rec,
                   recK, saved, midCrash, lostSave>>

\* what resolve_dns_timeout can return for any hostname
AnyResult == {{}} \cup {{a} : a \in Addrs}

\* Phase 1, one entry: resolve, then keep, skip or queue
Phase1(p) == \E r \in AnyResult : Phase1Entry(p, r)

\* Phase 2: cache.set_adding(ip, port) for the next queued key
Phase2Begin(p) ==
    /\ pc[p] = "p2"
    /\ LET k == toAdd[p][idx[p]] IN
        /\ Persist(p, set_adding(cache[p], k))
        /\ cur' = Fresh(cur, p, {k})
    /\ pc' = Fresh(pc, p, "p2_add1")
    /\ UNCHANGED <<fw, lock, worker, outcome, entries, existing, desired,
                   toAdd, idx, todo, fw0, resolvedK, dnsFail, ensured,
                   addFail, delFail, dels, lateAdd, rec, recK>>

\* Phase 2: add_rule, first attempt
Phase2Add(p) ==
    /\ pc[p] = "p2_add1"
    /\ \E k \in cur[p] : AddCall(p, k, "p2_commit", "p2_add2")
    /\ UNCHANGED <<disk, lock, worker, outcome, cache, entries, existing,
                   desired, toAdd, idx, cur, todo, fw0, resolvedK, dnsFail,
                   ensured, addFail, delFail, dels, rec, recK, saved,
                   midCrash, lostSave>>

\* Phase 2: add_rule, the one retry
Phase2Retry(p) ==
    /\ pc[p] = "p2_add2"
    /\ \E k \in cur[p] : AddCall(p, k, "p2_commit", "p2_fail")
    /\ UNCHANGED <<disk, lock, worker, outcome, cache, entries, existing,
                   desired, toAdd, idx, cur, todo, fw0, resolvedK, dnsFail,
                   ensured, addFail, delFail, dels, rec, recK, saved,
                   midCrash, lostSave>>

\* Phase 2: cache.add_rule after a successful add
Phase2Commit(p) ==
    /\ pc[p] = "p2_commit"
    /\ \E k \in cur[p] :
        /\ Persist(p, cache_add_rule(cache[p], k))
        /\ ensured' = Fresh(ensured, p, ensured[p] \cup {k})
    /\ cur' = Fresh(cur, p, {})
    /\ idx' = Fresh(idx, p, idx[p] + 1)
    /\ pc' = Fresh(pc, p, Phase2Pc(idx[p] + 1, toAdd[p], todo[p], desired[p]))
    /\ UNCHANGED <<fw, lock, worker, outcome, entries, existing, desired,
                   toAdd, todo, fw0, resolvedK, dnsFail, addFail, delFail,
                   dels, lateAdd, rec, recK>>

\* seeded fault: an exhausted add that keeps nothing
FallbackNone(ex, k) == {}

\* the rules an exhausted add keeps: every existing rule of that port
Fallback(ex, k) == OnPort(ex, PortOf(k))

\* Phase 2: both attempts failed: cache.set_idle, keep the port's rules
Phase2Fail(p) ==
    /\ pc[p] = "p2_fail"
    /\ Persist(p, set_idle(cache[p]))
    /\ \E k \in cur[p] :
        LET ds == desired[p] \cup Fallback(existing[p], k) IN
        /\ desired' = Fresh(desired, p, ds)
        /\ addFail' = Fresh(addFail, p, addFail[p] \cup {k})
        /\ pc' = Fresh(pc, p, Phase2Pc(idx[p] + 1, toAdd[p], todo[p], ds))
    /\ cur' = Fresh(cur, p, {})
    /\ idx' = Fresh(idx, p, idx[p] + 1)
    /\ UNCHANGED <<fw, lock, worker, outcome, entries, existing, toAdd, todo,
                   fw0, resolvedK, dnsFail, ensured, delFail, dels, lateAdd,
                   rec, recK>>

\* Phase 3: cache.set_deleting for the next rule that is not desired
\* (HashSet iteration order: any of them)
Phase3Begin(p) ==
    /\ pc[p] = "p3"
    /\ \E k \in ToDelete(todo[p], desired[p]) :
        /\ Persist(p, set_deleting(cache[p], k))
        /\ cur' = Fresh(cur, p, {k})
        /\ todo' = Fresh(todo, p, todo[p] \ {k})
    /\ pc' = Fresh(pc, p, "p3_del")
    /\ UNCHANGED <<fw, lock, worker, outcome, entries, existing, desired,
                   toAdd, idx, fw0, resolvedK, dnsFail, ensured, addFail,
                   delFail, dels, lateAdd, rec, recK>>

\* Phase 3: delete_rule (iptables -D removes one matching rule), not retried
Phase3Delete(p) ==
    /\ pc[p] = "p3_del"
    /\ \E k \in cur[p] :
        /\ dels' = Fresh(dels, p, dels[p] \cup {k})
        /\ \/ /\ fw[k] > 0
              /\ fw' = [fw EXCEPT ![k] = @ - 1]
              /\ pc' = Fresh(pc, p, "p3_commit")
           \/ /\ pc' = Fresh(pc, p, "p3_fail")
              /\ UNCHANGED fw
    /\ touched' = Fresh(touched, p, TRUE)
    /\ UNCHANGED <<disk, lock, worker, outcome, cache, entries, existing,
                   desired, toAdd, idx, cur, todo, fw0, resolvedK, dnsFail,
                   ensured, addFail, delFail, lateAdd, rec, recK, saved,
                   midCrash, lostSave>>

\* Phase 3: cache.remove_rule after a successful delete
Phase3Commit(p) ==
    /\ pc[p] = "p3_commit"
    /\ \E k \in cur[p] : Persist(p, cache_remove_rule(cache[p], k))
    /\ cur' = Fresh(cur, p, {})
    /\ pc' = Fresh(pc, p, Phase3Pc(todo[p], desired[p]))
    /\ UNCHANGED <<fw, lock, worker, outcome, entries, existing, desired,
                   toAdd, idx, todo, fw0, resolvedK, dnsFail, ensured,
                   addFail, delFail, dels, lateAdd, rec, recK>>

\* Phase 3: cache.set_idle after a failed delete; the rule remains
Phase3Fail(p) ==
    /\ pc[p] = "p3_fail"
    /\ Persist(p, set_idle(cache[p]))
    /\ \E k \in cur[p] : delFail' = Fresh(delFail, p, delFail[p] \cup {k})
    /\ cur' = Fresh(cur, p, {})
    /\ pc' = Fresh(pc, p, Phase3Pc(todo[p], desired[p]))
    /\ UNCHANGED <<fw, lock, worker, outcome, entries, existing, desired,
                   toAdd, idx, todo, fw0, resolvedK, dnsFail, ensured,
                   addFail, dels, lateAdd, rec, recK>>

\* the closing cache.set_idle(); sync_firewall returns
Finish(p) ==
    /\ pc[p] = "fin"
    /\ Persist(p, set_idle(cache[p]))
    /\ Return(p, "complete")
    /\ UNCHANGED <<fw, lock, worker, entries, existing, desired, toAdd, idx,
                   cur, todo, fw0, resolvedK, dnsFail, ensured, addFail,
                   delFail, dels, lateAdd, rec, recK>>

\* ------------------------------------------------------- end of a process
\* main returns: _lock is dropped, the process exits
Exit(p) ==
    /\ pc[p] = "ret"
    /\ Gone(p)
    /\ UNCHANGED <<fw, disk, midCrash, lostSave>>

\* the process is killed (power loss, SIGKILL) anywhere in sync_firewall
Crash(p) ==
    /\ pc[p] \notin {"idle", "ret"}
    /\ Gone(p)
    /\ midCrash' = (midCrash \/ (lock = p /\ disk.state # "IDLE"))
    /\ UNCHANGED <<fw, disk, lostSave>>

\* ------------------------------------------------------------------- Spec
\* the observation across runs and the text of the cache file are not
\* followed
Still == UNCHANGED <<obsVars, fileVars, scanVars, callVars, lateVars>>

\* one step of the invocation p once it is not kept waiting for the lock
Step(p) ==
    \/ NotRoot(p) /\ Still
    \/ LockNow(p) /\ Still
    \/ LockOpenFail(p) /\ Still
    \/ FindIptables(p) /\ Still
    \/ LoadCache(p) /\ Still
    \/ Recover(p) /\ Still
    \/ RecAdd(p) /\ Still
    \/ RecCommit(p) /\ Still
    \/ RecFail(p) /\ Still
    \/ ParseConfig(p) /\ Still
    \/ ListRules(p) /\ Still
    \/ Phase1(p) /\ Still
    \/ Phase2Begin(p) /\ Still
    \/ Phase2Add(p) /\ Still
    \/ Phase2Retry(p) /\ Still
    \/ Phase2Commit(p) /\ Still
    \/ Phase2Fail(p) /\ Still
    \/ Phase3Begin(p) /\ Still
    \/ Phase3Delete(p) /\ Still
    \/ Phase3Commit(p) /\ Still
    \/ Phase3Fail(p) /\ Still
    \/ Finish(p) /\ Still
    \/ Exit(p) /\ Still
    \/ Crash(p) /\ Still

\* The engine, one invocation after another (the oneshot unit of the timer):
\* every failure of DNS, iptables, the cache file, and a crash anywhere.
Next == Step(1)

Spec == Init /\ [][Next]_vars

\* Several invocations started at any time (overlapping timer and manual
\* starts) against a quiet environment: configurations of at most one entry
\* and a cache file that takes every write.
Quiet == \A p \in Procs : Len(entries[p]) <= 1 /\ saved[p]

NextLock ==
    \E p \in Procs :
        \/ NotRoot(p) /\ Quiet' /\ Still
        \/ LockNow(p) /\ Quiet' /\ Still
        \/ LockBusy(p) /\ Quiet' /\ Still
        \/ \E res \in {"ok0", "err", "timeout"} :
               LockWait(p, res) /\ Quiet' /\ Still
        \/ LockOpenFail(p) /\ Quiet' /\ Still
        \/ FindIptables(p) /\ Quiet' /\ Still
        \/ LoadCache(p) /\ Quiet' /\ Still
        \/ Recover(p) /\ Quiet' /\ Still
        \/ RecAdd(p) /\ Quiet' /\ Still
        \/ RecCommit(p) /\ Quiet' /\ Still
        \/ RecFail(p) /\ Quiet' /\ Still
        \/ ParseConfig(p) /\ Quiet' /\ Still
        \/ ListRules(p) /\ Quiet' /\ Still
        \/ Phase1(p) /\ Quiet' /\ Still
        \/ Phase2Begin(p) /\ Quiet' /\ Still
        \/ Phase2Add(p) /\ Quiet' /\ Still
        \/ Phase2Retry(p) /\ Quiet' /\ Still
        \/ Phase2Commit(p) /\ Quiet' /\ Still
        \/ Phase2Fail(p) /\ Quiet' /\ Still
        \/ Phase3Begin(p) /\ Quiet' /\ Still
        \/ Phase3Delete(p) /\ Quiet' /\ Still
        \/ Phase3Commit(p) /\ Quiet' /\ Still
        \/ Phase3Fail(p) /\ Quiet' /\ Still
        \/ Finish(p) /\ Quiet' /\ Still
        \/ Exit(p) /\ Quiet' /\ Still
        \/ Crash(p) /\ Quiet' /\ Still

SpecLock == Init /\ [][NextLock]_vars

\* ------------------------------------------------- the cache file as text
\* A text is a sequence of tokens, a file a sequence of lines.  The tokens
\* are the pieces the code looks for (line prefixes, ':' and ',') and the
\* printed addresses, ports and state names.

\* Cache::load reads at most this many lines
MaxCacheLines == 10

\* port.to_string() / str::parse::<u16>
PortText(n) == ToString(n)

\* The ports a text can parse to: u16, cut at MaxPort.
MaxPort == 101

PortRange == 0..MaxPort

ParsePort(s) == {n \in PortRange : PortText(n) = s}

\* Ipv4Addr's Display / str::parse::<Ipv4Addr>
ParseIp(s) == {a \in Addrs : a = s}

\* format!("{}:{}", ip, port)
KeyText(k) == <<k[1], ":", PortText(k[2])>>

\* parse_ip_port: the text before the last ':' is the address, the text
\* after it the port (Option: a set of <= 1)
parse_ip_port(t) ==
    LET colons == {i \in 1..Len(t) : t[i] = ":"} IN
    IF t = <<>> \/ colons = {} THEN {}
    ELSE LET colon == CHOOSE i \in colons : \A j \in colons : j <= i
             ipt == SubSeq(t, 1, colon - 1)
             pt == SubSeq(t, colon + 1, Len(t))
         IN IF Len(ipt) = 1 /\ Len(pt) = 1
            THEN {<<a, n>> : a \in ParseIp(ipt[1]), n \in ParsePort(pt[1])}
            ELSE {}

\* .join(",")
RECURSIVE Join(_)
Join(ts) ==
    IF ts = <<>> THEN <<>>
    ELSE IF Len(ts) = 1 THEN ts[1]
    ELSE LET h == Len(ts) \div 2
         IN Join(SubSeq(ts, 1, h)) \o <<",">> \o
            Join(SubSeq(ts, h + 1, Len(ts)))

\* .split(','): the pieces between the commas, one empty piece for ""
RECURSIVE Split(_)
Split(t) ==
    LET commas == {i \in 1..Len(t) : t[i] = ","} IN
    IF commas = {} THEN <<t>>
    ELSE LET Mid(i) == IF 2 * i < Len(t) THEN Len(t) - 2 * i
                       ELSE 2 * i - Len(t)
             c == CHOOSE i \in commas : \A j \in commas : Mid(i) <= Mid(j)
         IN Split(SubSeq(t, 1, c - 1)) \o Split(SubSeq(t, c + 1, Len(t)))

\* self.rules.iter().take(MAX_RULES): the first MAX_RULES rules in the
\* iteration order of the HashSet, which is any order
Orders(rs) ==
    LET n == IF Cardinality(rs) < MAX_RULES THEN Cardinality(rs)
             ELSE MAX_RULES
    IN {o \in [1..n -> rs] : \A i, j \in 1..n : o[i] = o[j] => i = j}

\* the three lines Cache::save formats
StateLine(c) == <<"STATE:", StateStr(c.state)>>

RulesLine(o) == <<"RULES:">> \o Join([i \in 1..Len(o) |-> KeyText(o[i])])

PendingLine(c) ==
    <<"PENDING:">> \o Join([i \in 1..Cardinality(c.pending) |->
                               KeyText(CHOOSE k \in c.pending : TRUE)])

\* the contents Cache::save can format for c
\* format!("STATE:{}\nRULES:{}\nPENDING:{}\n", ...) with the rules in order o
FormatContent(c, o) == <<StateLine(c), RulesLine(o), PendingLine(c)>>

CacheTexts(c) == {FormatContent(c, o) : o \in Orders(c.rules)}

\* seeded fault: the rule cap of Cache::load one too low
LoadRulesShort(pieces, rs) ==
    LET parsed == [i \in 1..Len(pieces) |-> parse_ip_port(pieces[i])]
        rule_count(i) == Cardinality({j \in 1..(i - 1) : parsed[j] # {}})
    IN rs \cup UNION {parsed[i] : i \in {j \in 1..Len(pieces) :
                                            rule_count(j) + 1 < MAX_RULES}}

\* the RULES: line of Cache::load: piece i is inserted when it parses and
\* rule_count, the number of pieces that parsed before it, is below
\* MAX_RULES
LoadRules(pieces, rs) ==
    LET parsed == [i \in 1..Len(pieces) |-> parse_ip_port(pieces[i])]
        rule_count(i) == Cardinality({j \in 1..(i - 1) : parsed[j] # {}})
    IN rs \cup UNION {parsed[i] : i \in {j \in 1..Len(pieces) :
                                            rule_count(j) < MAX_RULES}}

\* one line of Cache::load
LoadLine(c, line) ==
    IF line = <<>> THEN c
    ELSE LET rest == Tail(line) IN
         CASE line[1] = "STATE:" ->
                [c EXCEPT !.state = IF Len(rest) = 1 THEN ParseState(rest[1])
                                    ELSE "Idle"]
           [] line[1] = "RULES:" ->
                [c EXCEPT !.rules = LoadRules(Split(rest), @)]
           [] line[1] = "PENDING:" ->
                [c EXCEPT !.pending = parse_ip_port(rest)]
           [] OTHER -> c

RECURSIVE LoadLines(_, _, _)
LoadLines(c, lines, line_count) ==
    IF lines = <<>> \/ line_count + 1 > MaxCacheLines THEN c
    ELSE LoadLines(LoadLine(c, lines[1]), Tail(lines), line_count + 1)

\* Cache::load of a file (Option: no file gives Cache::new)
LoadText(f) ==
    IF f = {} THEN NewCache
    ELSE LoadLines(NewCache, CHOOSE t \in f : TRUE, 0)

\* what a write_all that fails has put into the file: some complete lines
\* and possibly the beginning of the next one
PartialTexts(t) ==
    UNION {{SubSeq(t, 1, n)} \cup
           {Append(SubSeq(t, 1, n), SubSeq(t[n + 1], 1, m)) :
               m \in 1..(Len(t[n + 1]) - 1)} : n \in 0..(Len(t) - 1)}

\* ------------------------------------------------------ Cache::save steps
\* The key the helpers are called with in SpecSave.
SaveKeys == {<<"a1", 22>>}

\* everything but the Cache of process 1 and the cache file
saveFrame ==
    UNCHANGED <<envVars, pc, worker, outcome, entries, existing, desired,
                toAdd, idx, cur, todo, histVars, obsVars, scanVars,
                callVars, lateVars>>

\* a process starts: Cache::load
SaveStart ==
    /\ spc \in {"none", "dead"}
    /\ cache' = Fresh(cache, 1, LoadText(file))
    /\ spc' = "run"
    /\ UNCHANGED <<file, tmp, before, want>>
    /\ saveFrame

\* what the engine does to its Cache before a save: a transition helper
CacheOps(c) ==
    {set_idle(c)} \cup
    {set_adding(c, k) : k \in SaveKeys} \cup
    {set_deleting(c, k) : k \in SaveKeys} \cup
    {cache_add_rule(c, k) : k \in SaveKeys} \cup
    {cache_remove_rule(c, k) : k \in SaveKeys}

\* the in-memory change, and save() is entered
SaveBegin ==
    /\ spc = "run"
    /\ \E c \in CacheOps(cache[1]) :
        /\ cache' = Fresh(cache, 1, c)
        /\ want' = CacheTexts(c)
    /\ before' = file
    /\ spc' = "open"
    /\ UNCHANGED <<file, tmp>>
    /\ saveFrame

\* OpenOptions ... truncate(true).open(temp_path); on Err save returns
SaveOpen ==
    /\ spc = "open"
    /\ \/ tmp' = {<<>>} /\ spc' = "write" /\ UNCHANGED <<before, want>>
       \/ UNCHANGED tmp /\ spc' = "run" /\ before' = file /\ want' = {}
    /\ UNCHANGED <<cache, file>>
    /\ saveFrame

\* file.write_all(content): all of it, or part of it when it fails; the
\* result is dropped
SaveWrite ==
    /\ spc = "write"
    /\ \E t \in want : \E w \in {t} \cup PartialTexts(t) : tmp' = {w}
    /\ spc' = "sync"
    /\ UNCHANGED <<cache, file, before, want>>
    /\ saveFrame

\* file.sync_all(); the result is dropped
SaveSync ==
    /\ spc = "sync"
    /\ spc' = "rename"
    /\ UNCHANGED <<cache, file, tmp, before, want>>
    /\ saveFrame

\* fs::rename(temp_path, CACHE_PATH); the result is dropped
SaveRename ==
    /\ spc = "rename"
    /\ \/ file' = tmp /\ tmp' = {}
       \/ UNCHANGED <<file, tmp>>
    /\ spc' = "close"
    /\ UNCHANGED <<cache, before, want>>
    /\ saveFrame

\* the temp file handle is dropped and save returns
SaveReturn ==
    /\ spc = "close"
    /\ spc' = "run"
    /\ before' = file
    /\ want' = {}
    /\ UNCHANGED <<cache, file, tmp>>
    /\ saveFrame

\* the process is killed, inside save or between two saves
SaveKill ==
    /\ spc \notin {"none", "dead"}
    /\ spc' = "dead"
    /\ cache' = Fresh(cache, 1, NewCache)
    /\ UNCHANGED <<file, tmp, before, want>>
    /\ saveFrame

\* The Cache of one process after another and the two files save works on.
NextSave ==
    \/ SaveStart
    \/ SaveBegin
    \/ SaveOpen
    \/ SaveWrite
    \/ SaveSync
    \/ SaveRename
    \/ SaveReturn
    \/ SaveKill

SpecSave == Init /\ [][NextSave]_vars

\* ------------------------------------------------ the calls of one run
\* The run of Spec with its firewall calls counted.
Tally(c) ==
    calls' = c /\ UNCHANGED <<obsVars, fileVars, scanVars, lateVars>>

NoCall == Tally(calls)

\* seeded fault: rule_exists called for the pending key in either arm
RecoverCallsAnyArm(cl, c) ==
    IF c.pending # {} THEN [cl EXCEPT !.rchk = @ + 1] ELSE cl

\* recover_from_crash calls rule_exists in its Adding arm, when a pending
\* key is there
RecoverCalls(cl, c) ==
    IF c.state = "Adding" /\ c.pending # {}
    THEN [cl EXCEPT !.rchk = @ + 1] ELSE cl

\* recover_from_crash calls add_rule
RecAddCalls(cl) == [cl EXCEPT !.radd = @ + 1]

\* Phase 2 calls add_rule for the key in hand; again: the run has already
\* added that key
AddCalls(cl, ks, done) ==
    [cl EXCEPT !.add = [k \in Keys |-> IF k \in ks THEN @[k] + 1 ELSE @[k]],
               !.again = @ \/ ks \cap done # {}]

\* sync_firewall calls get_existing_rules
ListCalls(cl) == [cl EXCEPT !.list = @ + 1]

\* Phase 3 calls delete_rule for the key in hand
DelCalls(cl, ks) ==
    [cl EXCEPT !.del = [k \in Keys |-> IF k \in ks THEN @[k] + 1 ELSE @[k]]]

NextCalls ==
    \/ NotRoot(1) /\ NoCall
    \/ LockNow(1) /\ NoCall
    \/ LockOpenFail(1) /\ NoCall
    \/ FindIptables(1) /\ NoCall
    \/ LoadCache(1) /\ NoCall
    \/ Recover(1) /\ Tally(RecoverCalls(calls, cache[1]))
    \/ RecAdd(1) /\ Tally(RecAddCalls(calls))
    \/ RecCommit(1) /\ NoCall
    \/ RecFail(1) /\ NoCall
    \/ ParseConfig(1) /\ NoCall
    \/ ListRules(1) /\ Tally(ListCalls(calls))
    \/ Phase1(1) /\ NoCall
    \/ Phase2Begin(1) /\ NoCall
    \/ Phase2Add(1) /\ Tally(AddCalls(calls, cur[1], ensured[1]))
    \/ Phase2Retry(1) /\ Tally(AddCalls(calls, cur[1], ensured[1]))
    \/ Phase2Commit(1) /\ NoCall
    \/ Phase2Fail(1) /\ NoCall
    \/ Phase3Begin(1) /\ NoCall
    \/ Phase3Delete(1) /\ Tally(DelCalls(calls, cur[1]))
    \/ Phase3Commit(1) /\ NoCall
    \/ Phase3Fail(1) /\ NoCall
    \/ Finish(1) /\ NoCall
    \/ Exit(1) /\ Tally(NoCalls)
    \/ Crash(1) /\ Tally(NoCalls)

SpecCalls == Init /\ [][NextCalls]_vars

\* ------------------------------------------------- abandoned threads
\* Several invocations with the threads they gave up on: the flock thread of
\* acquire_lock after the 30 s wait and the resolver threads of
\* resolve_dns_timeout after the 10 s wait.  No process is killed and the
\* cache file takes every write.
Settled == \A p \in Procs : saved[p]

lateFrame == UNCHANGED <<obsVars, fileVars, scanVars, callVars>>

\* the flock of the abandoned thread returns 0 after acquire_lock returned
\* None and dropped lock_file: the lock goes to the open file, which only
\* the system call still refers to
LateGrant(p) ==
    /\ pc[p] = "ret"
    /\ worker[p] = "blocked"
    /\ lock = 0
    /\ lock' = p
    /\ worker' = Fresh(worker, p, "granted")
    /\ UNCHANGED <<fw, disk, pc, outcome, cache, entries, existing, desired,
                   toAdd, idx, cur, todo, histVars, lateVars>>
    /\ lateFrame

\* the abandoned thread leaves flock: the last reference to the open file
\* goes, which releases its lock; tx.send finds the receiver dropped
WorkerReturn(p) ==
    /\ worker[p] = "granted"
    /\ lock' = IF lock = p THEN 0 ELSE lock
    /\ worker' = Fresh(worker, p, "none")
    /\ UNCHANGED <<fw, disk, pc, outcome, cache, entries, existing, desired,
                   toAdd, idx, cur, todo, histVars, lateVars>>
    /\ lateFrame

\* what the thread of a call that returned r may still send: a call that
\* returned None has either received None or timed out
Abandoned(h, r) ==
    IF r = {} THEN {{}} \cup {{x} : x \in ResolveResults(h)} ELSE {{}}

\* the resolver call of the entry Phase 1 is at returned r
Abandon(p, r) ==
    /\ \E l \in Abandoned(entries[p][idx[p]].hostname, r) :
           late' = Fresh(late, p, late[p] \cup l)
    /\ UNCHANGED dropped
    /\ lateFrame

\* an abandoned resolver thread ends: tx.send(result) finds the receiver
\* dropped and the result is lost
LateAnswer(p) ==
    /\ \E x \in late[p] : late' = Fresh(late, p, late[p] \ {x})
    /\ dropped' = TRUE
    /\ UNCHANGED <<envVars, progVars, histVars>>
    /\ lateFrame

\* the process exits and its threads with it
Reaped(p) ==
    /\ late' = Fresh(late, p, {})
    /\ UNCHANGED dropped
    /\ lateFrame

NextLate ==
    \E p \in Procs :
        \/ LockNow(p) /\ Still
        \/ LockBusy(p) /\ Still
        \/ \E res \in {"ok0", "err", "timeout"} : LockWait(p, res) /\ Still
        \/ LateGrant(p)
        \/ WorkerReturn(p)
        \/ FindIptables(p) /\ Still
        \/ LoadCache(p) /\ Still
        \/ ParseConfig(p) /\ Still
        \/ ListRules(p) /\ Settled' /\ Still
        \/ \E r \in AnyResult : Phase1Entry(p, r) /\ Abandon(p, r)
        \/ LateAnswer(p)
        \/ Phase2Begin(p) /\ Settled' /\ Still
        \/ Phase2Add(p) /\ Still
        \/ Phase2Retry(p) /\ Still
        \/ Phase2Commit(p) /\ Settled' /\ Still
        \/ Phase2Fail(p) /\ Settled' /\ Still
        \/ Phase3Begin(p) /\ Settled' /\ Still
        \/ Phase3Delete(p) /\ Still
        \/ Phase3Commit(p) /\ Settled' /\ Still
        \/ Phase3Fail(p) /\ Settled' /\ Still
        \/ Finish(p) /\ Settled' /\ Still
        \/ Exit(p) /\ Reaped(p)

SpecLate == Init /\ [][NextLate]_vars

\* ------------------------------------------------- waiting for the lock
\* Several invocations in the quiet environment, none killed, where the
\* holder's run ends before the 30 s of a waiting run are over: the wait ends
\* with the flock of the thread returning 0.
Holder(p) ==
    \/ FindIptables(p) /\ Quiet' /\ Still
    \/ LoadCache(p) /\ Quiet' /\ Still
    \/ ParseConfig(p) /\ Quiet' /\ Still
    \/ ListRules(p) /\ Quiet' /\ Still
    \/ Phase1(p) /\ Quiet' /\ Still
    \/ Phase2Begin(p) /\ Quiet' /\ Still
    \/ Phase2Add(p) /\ Quiet' /\ Still
    \/ Phase2Retry(p) /\ Quiet' /\ Still
    \/ Phase2Commit(p) /\ Quiet' /\ Still
    \/ Phase2Fail(p) /\ Quiet' /\ Still
    \/ Phase3Begin(p) /\ Quiet' /\ Still
    \/ Phase3Delete(p) /\ Quiet' /\ Still
    \/ Phase3Commit(p) /\ Quiet' /\ Still
    \/ Phase3Fail(p) /\ Quiet' /\ Still
    \/ Finish(p) /\ Quiet' /\ Still
    \/ Exit(p) /\ Quiet' /\ Still

\* the blocking flock of the waiting run's thread returns 0
Granted(p) == LockWait(p, "ok0") /\ Quiet' /\ Still

NextLive ==
    \E p \in Procs :
        \/ LockNow(p) /\ Quiet' /\ Still
        \/ LockBusy(p) /\ Quiet' /\ Still
        \/ Granted(p)
        \/ Holder(p)

\* a run that has the lock goes on to its end; a blocked flock that can be
\* granted again and again is granted
SpecLive ==
    /\ Init
    /\ [][NextLive]_vars
    /\ \A p \in Procs : WF_vars(Holder(p)) /\ SF_vars(Granted(p))

\* ------------------------------------------------------ scans of an input
\* parse_config and get_existing_rules as loops over the lines of an input of
\* any length.  A line is taken by what the loop does with it.
ConfigLines == {"blank", "entry", "junk"}

ListingLines == {"other", "rule", "again", "junk"}

scanFrame ==
    UNCHANGED <<envVars, progVars, histVars, obsVars, fileVars, callVars,
                lateVars>>

\* the function is entered, the input was read
ScanStart ==
    /\ scan.fn = "none"
    /\ \E f \in {"parse_config", "get_existing_rules"} :
           scan' = [NoScan EXCEPT !.fn = f]
    /\ scanFrame

\* the break of a loop: the line in hand and the rest are not looked at
Break(sc, warn) ==
    [sc EXCEPT !.warned = @ \/ warn, !.cut = TRUE, !.done = TRUE]

\* one iteration of the loop of parse_config on a line of kind l
parse_config_line(sc, l) ==
    LET it == [sc EXCEPT !.iteration = @ + 1] IN
    IF it.iteration > MAX_LOOP_ITERATIONS THEN Break(it, TRUE)
    ELSE IF it.len >= MAX_ENTRIES THEN Break(it, TRUE)
    ELSE [it EXCEPT !.seen = @ + 1,
                    !.len = IF l = "entry" THEN @ + 1 ELSE @]

\* one iteration of the loop of get_existing_rules on a line of kind l:
\* "other" has no DDNS-FW comment, "rule" parses to a rule not yet in the
\* set, "again" to one already in it, "junk" has the comment and no rule
get_existing_rules_line(sc, l) ==
    LET it == [sc EXCEPT !.iteration = @ + 1] IN
    IF it.iteration > MAX_LOOP_ITERATIONS THEN Break(it, TRUE)
    ELSE IF l = "other" THEN [it EXCEPT !.seen = @ + 1]
    ELSE IF it.len >= MAX_RULES THEN Break(it, FALSE)
    ELSE [it EXCEPT !.seen = @ + 1,
                    !.len = IF l = "rule" THEN @ + 1 ELSE @]

ScanConfigLine ==
    /\ scan.fn = "parse_config" /\ ~scan.done
    /\ \E l \in ConfigLines : scan' = parse_config_line(scan, l)
    /\ scanFrame

ScanListingLine ==
    /\ scan.fn = "get_existing_rules" /\ ~scan.done
    /\ \E l \in ListingLines : scan' = get_existing_rules_line(scan, l)
    /\ scanFrame

\* the input has no more lines: the loop ends
ScanEnd ==
    /\ scan.fn # "none" /\ ~scan.done
    /\ scan' = [scan EXCEPT !.done = TRUE]
    /\ scanFrame

\* the function returns its Vec or HashSet to sync_firewall
ScanReturn ==
    /\ scan.done
    /\ scan' = NoScan
    /\ scanFrame

NextScan ==
    ScanStart \/ ScanConfigLine \/ ScanListingLine \/ ScanEnd \/ ScanReturn

SpecScan == Init /\ [][NextScan]_vars

\* ------------------------------------------------- save followed by load
\* The Caches saved and reloaded in SpecTrip: the rule sets are the sets of
\* Keys and the first m ports of one address, m small or near MaxPort.
RuleSets ==
    {{<<"a1", n>> : n \in 1..m} : m \in (0..2) \cup ((MaxPort - 2)..MaxPort)}
        \cup SUBSET Keys

TripCaches ==
    {[state |-> st, rules |-> rs, pending |-> pk] :
        st \in {"Idle", "Adding", "Deleting"}, rs \in RuleSets,
        pk \in {{}} \cup {{k} : k \in {<<"a1", 22>>, <<"a2", 80>>}}}

\* two iteration orders of the HashSet: by port and address, and the reverse
Less(j, k) == j[2] < k[2] \/ (j[2] = k[2] /\ j[1] = "a1" /\ k[1] = "a2")

Ascending(rs) ==
    [i \in 1..Cardinality(rs) |->
        CHOOSE k \in rs : Cardinality({j \in rs : Less(j, k)}) = i - 1]

Descending(rs) ==
    [i \in 1..Cardinality(rs) |-> Ascending(rs)[Cardinality(rs) + 1 - i]]

\* .take(MAX_RULES)
Take(o) == IF Len(o) <= MAX_RULES THEN o ELSE SubSeq(o, 1, MAX_RULES)

IterOrders(rs) == {Take(Ascending(rs)), Take(Descending(rs))}

\* the engine holds some Cache
TripInput ==
    /\ spc = "none"
    /\ \E c \in TripCaches : cache' = Fresh(cache, 1, c)
    /\ spc' = "held"
    /\ UNCHANGED <<file, tmp, before, want>>
    /\ saveFrame

\* Cache::save, every step of it succeeding
TripSave ==
    /\ spc = "held"
    /\ \E o \in IterOrders(cache[1].rules) :
        /\ want' = {FormatContent(cache[1], o)}
        /\ file' = want'
    /\ spc' = "saved"
    /\ UNCHANGED <<cache, tmp, before>>
    /\ saveFrame

\* Cache::load of the file just written
TripLoad ==
    /\ spc = "saved"
    /\ cache' = Fresh(cache, 1, LoadText(file))
    /\ spc' = "loaded"
    /\ UNCHANGED <<file, tmp, before, want>>
    /\ saveFrame

NextTrip == TripInput \/ TripSave \/ TripLoad

SpecTrip == Init /\ [][NextTrip]_vars

\* ------------------------------------------------------- consecutive runs
\* The run went through its three phases with every call succeeding: the
\* listing returned the live rules, no add was given up, no delete failed.
CleanRun(p) ==
    /\ pc[p] = "ret" /\ outcome[p] = "complete"
    /\ fw0[p] \subseteq existing[p]
    /\ addFail[p] = {}
    /\ delFail[p] = {}

\* the resolver answered r to the entry Phase 1 is at
Answered(p, r) ==
    /\ ans' = Fresh(ans, p, Append(ans[p], r))
    /\ UNCHANGED <<prev, fileVars, scanVars, callVars, lateVars>>

\* the process exits: its configuration and answers are what the next
\* run is compared with, if the run was a clean one
Remember(p) ==
    /\ prev' = IF CleanRun(p)
               THEN {[entries |-> entries[p], ans |-> ans[p]]}
               ELSE {}
    /\ ans' = Fresh(ans, p, <<>>)
    /\ UNCHANGED <<fileVars, scanVars, callVars, lateVars>>

\* One invocation after another, with the configuration and the answers
\* of consecutive runs on record, in an environment where no process is
\* killed and the cache file takes every write (so no run has anything to
\* recover); the resolver, the listing, the adds and the deletes may fail.
Calm == saved[1]

NextRuns ==
    \/ LockNow(1) /\ Still
    \/ FindIptables(1) /\ Still
    \/ LoadCache(1) /\ Still
    \/ ParseConfig(1) /\ Still
    \/ ListRules(1) /\ Calm' /\ Still
    \/ \E r \in AnyResult : Phase1Entry(1, r) /\ Answered(1, r)
    \/ Phase2Begin(1) /\ Calm' /\ Still
    \/ Phase2Add(1) /\ Still
    \/ Phase2Retry(1) /\ Still
    \/ Phase2Commit(1) /\ Calm' /\ Still
    \/ Phase2Fail(1) /\ Calm' /\ Still
    \/ Phase3Begin(1) /\ Calm' /\ Still
    \/ Phase3Delete(1) /\ Still
    \/ Phase3Commit(1) /\ Calm' /\ Still
    \/ Phase3Fail(1) /\ Calm' /\ Still
    \/ Finish(1) /\ Calm' /\ Still
    \/ Exit(1) /\ Remember(1)

SpecRuns == Init /\ [][NextRuns]_vars

TypeOK ==
    /\ fw \in [Keys -> 0..MaxEntries]
    /\ lock \in 0..NumProcs
    /\ \A p \in Procs : Cardinality(cur[p]) <= 1

\* ---------------------------------------------------------------------
\* Properties of the synchronisation run
\* ---------------------------------------------------------------------

\* the key a process is about to hand to iptables -D, if any
Deleting(p) == IF pc[p] = "p3_del" THEN cur[p] ELSE {}

\* the process is in, or past, a delete call of Phase 3
InDeletePhase(p) == pc[p] = "p3_del" \/ dels[p] # {}

\* the keys queued by Phase 1
Queued(p) == {toAdd[p][i] : i \in 1..Len(toAdd[p])}

\* the ports named by the configuration of the run
ConfiguredPorts(p) == {entries[p][i].port : i \in 1..Len(entries[p])}

\* C1: within a run every add call comes before every delete call: no
\* add is issued once a delete has been, and when a delete is issued the
\* whole add queue has been processed, each queued key either added or
\* given up with the existing rules of its port marked as desired.
C1_AddsPrecedeDeletes ==
    \A p \in Procs :
        /\ ~lateAdd[p]
        /\ InDeletePhase(p) =>
             /\ idx[p] > Len(toAdd[p])
             /\ Queued(p) \subseteq ensured[p] \cup addFail[p]
             /\ \A k \in addFail[p] :
                    OnPort(existing[p], PortOf(k)) \subseteq desired[p]

\* a finished run that added one key, gave up on another and deleted a rule
C1_Witness ==
    \E p \in Procs :
        /\ pc[p] = "ret"
        /\ dels[p] # {}
        /\ addFail[p] # {}
        /\ Queued(p) \cap ensured[p] # {}

\* the ports of the run whose resolution failed or whose add was given up
FailedPorts(p) == dnsFail[p] \cup {PortOf(k) : k \in addFail[p]}

\* C2: a key found present or added by the run stays in the firewall for
\* the rest of the run, and for a port whose resolution failed or whose
\* add failed every rule present when the run started is still present.
C2_NeverLessAccess ==
    \A p \in Procs :
        /\ ensured[p] \subseteq Live
        /\ \A port \in FailedPorts(p) : OnPort(fw0[p], port) \subseteq Live

\* a finished run that gave up an add on a port holding an old rule, and
\* deleted some other rule
C2_Witness ==
    \E p \in Procs :
        /\ pc[p] = "ret"
        /\ dels[p] # {}
        /\ \E k \in addFail[p] : OnPort(fw0[p], PortOf(k)) # {}

\* C3: when the resolution of an entry fails, no rule of that entry's
\* port is deleted by the run, whatever the other entries resolve to.
C3_DnsFailureKeepsPort ==
    \A p \in Procs : \A port \in dnsFail[p] :
        /\ OnPort(dels[p] \cup Deleting(p), port) = {}
        /\ \A k \in OnPort(fw0[p], port) : fw[k] > 0

\* a finished run where one entry of a port failed to resolve, another
\* entry of the same port resolved to a new address, and a rule of
\* another port was deleted
C3_Witness ==
    \E p \in Procs : \E port \in dnsFail[p] :
        /\ pc[p] = "ret"
        /\ OnPort(fw0[p], port) # {}
        /\ OnPort(resolvedK[p], port) \ fw0[p] # {}
        /\ dels[p] # {}

\* the run returned after its last phase
Completed(p) == pc[p] = "ret" /\ outcome[p] = "complete"

\* C4: when both attempts to add a new key fail, then at the end of the
\* run the key is absent from the firewall, the persisted operation is
\* Idle, and every rule of the key's port present at the start of the
\* run is still present, none of them handed to a delete call.  (Stated
\* for runs whose saves all reached the disk.)
C4_ExhaustedAddKeepsOldRules ==
    \A p \in Procs : (Completed(p) /\ saved[p]) =>
        \A k \in addFail[p] :
            /\ fw[k] = 0
            /\ disk.state = "IDLE"
            /\ OnPort(fw0[p], PortOf(k)) \subseteq Live
            /\ OnPort(dels[p], PortOf(k)) = {}

\* the same statement without the absence of the key: what the code
\* does guarantee after an exhausted add
C4_OldRulesKept ==
    \A p \in Procs : (Completed(p) /\ saved[p]) =>
        \A k \in addFail[p] :
            /\ disk.state = "IDLE"
            /\ OnPort(fw0[p], PortOf(k)) \subseteq Live
            /\ OnPort(dels[p], PortOf(k)) = {}

\* some resolved key of the run, other than k, is live on k's port
Replacement(p, k) ==
    \E r \in resolvedK[p] : r # k /\ PortOf(r) = PortOf(k) /\ fw[r] > 0

Critical(p) ==
    pc[p] \notin {"idle", "wait"} /\ outcome[p] \notin {"nolock", "notroot"}

\* C6: at most one process at a time is past lock acquisition; that
\* process holds the flock, and the state file and the firewall are
\* only ever accessed by a process that holds it.
C6_MutualExclusion ==
    /\ \A p, q \in Procs : (Critical(p) /\ Critical(q)) => p = q
    /\ \A p \in Procs : Critical(p) => lock = p
    /\ \A p \in Procs : touched[p] => lock = p

\* one process works on the firewall under the lock while another waits
C6_Witness ==
    \E p, q \in Procs :
        /\ p # q
        /\ lock = p
        /\ pc[p] \in {"p2_add1", "p3_del"}
        /\ pc[q] = "wait"

\* C7: a process whose lock wait ended by the 30 s timeout or by an
\* error returns without the lock and has not read or written the state
\* file or the firewall; a process still blocked on the lock has not
\* either.
C7_NoLockNoAccess ==
    \A p \in Procs :
        /\ worker[p] = "blocked" => ~touched[p] /\ lock # p
        /\ outcome[p] = "nolock" => ~touched[p] /\ lock # p /\ pc[p] = "ret"
        /\ (pc[p] = "ret" /\ worker[p] = "blocked") => outcome[p] = "nolock"

\* a process returned after its wait timed out, its worker still blocked,
\* while the holder had already changed the firewall
C7_Witness ==
    \E p, q \in Procs :
        /\ pc[p] = "ret"
        /\ worker[p] = "blocked"
        /\ outcome[p] = "nolock"
        /\ lock = q
        /\ Live # {}

\* ---------------------------------------------------------------------
\* Properties of the persisted state
\* ---------------------------------------------------------------------

\* the process is about to issue iptables -I / iptables -D
IssuesAdd(p) == pc[p] \in {"rec_add", "p2_add1", "p2_add2"}

IssuesDelete(p) == pc[p] = "p3_del"

\* the call has returned and the transition that follows is not yet made
AfterCall(p) ==
    pc[p] \in {"rec_commit", "rec_fail", "p2_commit", "p2_fail",
               "p3_commit", "p3_fail"}

\* the state file names operation tag with the pending keys ks
Named(tag, ks) == disk.state = tag /\ disk.pending = ks /\ ks # {}

DiskIdle == disk.state = "IDLE" /\ disk.pending = {}

\* the run ended without crashing: normal completion or the return on
\* an empty configuration
CleanEnd(p) == pc[p] = "ret" /\ outcome[p] \in {"complete", "noentries"}

RecoveredAbsent(p) == rec[p] \in {"added", "addfail"}

\* the configured ports other than the port of the recovered key
UnrelatedPorts(p) == ConfiguredPorts(p) \ {PortOf(k) : k \in recK[p]}

\* every later call of the run succeeded: the listing returned the live
\* rules, no add was given up, no delete failed, every save reached disk
AllCallsSucceeded(p) ==
    /\ fw0[p] \subseteq existing[p]
    /\ addFail[p] = {}
    /\ delFail[p] = {}
    /\ saved[p]

\* C10: a run started from persisted Adding with pending k, k absent
\* from the firewall, ends with the operation Idle; after recovery k is
\* installed if the recovery add succeeded and absent if it failed; and
\* at the end, for every configured port other than k's, the live rules
\* are exactly the desired rules of that port.  (Stated for runs in
\* which every call after recovery succeeded.)
C10_RecoveryConverges ==
    \A p \in Procs :
        /\ (RecoveredAbsent(p) /\ pc[p] = "config") =>
              \A k \in recK[p] : (rec[p] = "added") = (fw[k] > 0)
        /\ (RecoveredAbsent(p) /\ Completed(p) /\ AllCallsSucceeded(p)) =>
              /\ DiskIdle
              /\ \A port \in UnrelatedPorts(p) :
                     OnPort(Live, port) = OnPort(desired[p], port)

\* the part of C10 about the recovered key and the Idle end
C10_RecoveredKeyAndIdle ==
    \A p \in Procs :
        /\ (RecoveredAbsent(p) /\ pc[p] = "config") =>
              \A k \in recK[p] : (rec[p] = "added") = (fw[k] > 0)
        /\ (RecoveredAbsent(p) /\ Completed(p) /\ saved[p]) => DiskIdle

\* ---------------------------------------------------------------------
\* Consecutive runs (SpecRuns)
\* ---------------------------------------------------------------------

\* the run has resolved all its entries, each to an address, and its
\* configuration and answers are those of the clean run just before it
SameAsBefore(p) ==
    /\ pc[p] \notin {"idle", "find", "load", "config", "list", "p1"}
    /\ outcome[p] \in {"none", "complete"}
    /\ \E r \in prev : r.entries = entries[p] /\ r.ans = ans[p]
    /\ \A i \in 1..Len(ans[p]) : ans[p][i] # {}

\* the run has queued no add and has neither issued nor prepared a delete
NoCallSoFar(p) ==
    /\ toAdd[p] = <<>>
    /\ dels[p] = {}
    /\ pc[p] \notin {"p2", "p2_add1", "p2_add2", "p2_commit", "p2_fail",
                     "p3_del", "p3_commit", "p3_fail"}

\* C11: a run with the same configuration and the same answer for every
\* entry as the run before it, where that run went through with every
\* call succeeding, issues no add call and no delete call.
C11_SecondRunIssuesNothing ==
    \A p \in Procs : SameAsBefore(p) => NoCallSoFar(p)

\* ---------------------------------------------------------------------
\* The cache file (SpecSave)
\* ---------------------------------------------------------------------

\* the file holds what it held when the save began
HoldsPrevious == file = before

\* the file holds one of the complete contents the save formats
HoldsNew == file # {} /\ file \subseteq want

\* C12: after a process was killed at any step of Cache::save, the cache
\* file holds either the complete content it had before that save or the
\* complete new content, never a part of it.
C12_CrashLeavesOldOrNew ==
    spc = "dead" => (HoldsPrevious \/ HoldsNew)

\* a pending key is present exactly when the operation is Adding or Deleting
Consistent(c) == (c.pending # {}) <=> (c.state # "Idle")

\* C13: the Cache the engine holds after Cache::load and after every
\* transition helper, which is also the Cache every save formats, carries
\* a pending key exactly when its operation is Adding or Deleting; an Idle
\* Cache carries none.
C13_PendingIffNotIdle ==
    spc \notin {"none", "dead"} => Consistent(cache[1])

\* ---------------------------------------------------------------------
\* Save followed by load (SpecTrip)
\* ---------------------------------------------------------------------

\* the Cache has at most MAX_RULES rules and a pending key exactly when
\* its operation is not Idle
WithinContract(c) == Cardinality(c.rules) <= MAX_RULES /\ Consistent(c)

\* C14: for a Cache with at most 100 rules and a pending key consistent
\* with its operation, the file a successful Cache::save has written loads,
\* by Cache::load, to a Cache with the same operation, the same rules and
\* the same pending key.
C14_SaveThenLoadIsIdentity ==
    (spc = "saved" /\ WithinContract(cache[1])) => LoadText(file) = cache[1]

\* a Cache with exactly MAX_RULES rules and an Adding operation was saved
\* and loaded again
C14_Witness ==
    /\ spc = "loaded"
    /\ Cardinality(cache[1].rules) = MAX_RULES
    /\ cache[1].state = "Adding"
    /\ cache[1].pending = {<<"a2", 80>>}

\* ---------------------------------------------------------------------
\* Exit status (Spec)
\* ---------------------------------------------------------------------

\* the run ended on a setup error: no privilege, no firewall tool, no lock
SetupError(p) == outcome[p] \in {"notroot", "noiptables", "nolock"}

\* C15: the exit status of a run is a failure exactly when the run ended on
\* a setup error; a run that went through its phases exits with success
\* whatever its add and delete calls returned.
C15_FailureStatusIffSetupError ==
    \A p \in Procs :
        pc[p] = "ret" => (ExitStatus(outcome[p]) # 0 <=> SetupError(p))

\* ---------------------------------------------------------------------
\* Scans of an input (SpecScan)
\* ---------------------------------------------------------------------

\* at most MAX_LOOP_ITERATIONS lines are looked at and at most MAX_ENTRIES
\* (MAX_RULES) entries (rules) are kept
ScanBounded ==
    /\ scan.seen <= MAX_LOOP_ITERATIONS
    /\ scan.fn = "parse_config" => scan.len <= MAX_ENTRIES
    /\ scan.fn = "get_existing_rules" => scan.len <= MAX_RULES

\* a scan that left lines of its input unread has emitted a warning
CutIsWarned == scan.cut => scan.warned

\* C16: parse_config looks at no more than 200 lines and returns no more
\* than 100 entries, get_existing_rules looks at no more than 200 lines and
\* keeps no more than 100 rules, whatever the length of the input, and a
\* scan that stopped before the end of its input has emitted a warning.
C16_ScansBoundedAndWarned == ScanBounded /\ CutIsWarned

\* ---------------------------------------------------------------------
\* The calls of crash recovery (SpecCalls)
\* ---------------------------------------------------------------------

\* recovery has returned and parse_config has not been called yet
RecoveryDone == pc[1] = "config" /\ rec[1] # "none"

\* the state loaded was Adding with a pending key
FromAdding == rec[1] \in {"present", "added", "addfail"}

\* the pending key is in cache.rules, which Cache::add_rule leaves alone
\* when it already holds MAX_RULES rules
Committed ==
    recK[1] \subseteq cache[1].rules \/ Cardinality(cache[1].rules) >= MAX_RULES

\* one existence check; no add for a rule found present, otherwise one add;
\* the key committed when present or added
RecoveryFromAdding ==
    (RecoveryDone /\ FromAdding) =>
        /\ calls.rchk = 1
        /\ rec[1] = "present" => (calls.radd = 0 /\ Committed)
        /\ rec[1] = "added" => (calls.radd = 1 /\ Committed)
        /\ rec[1] = "addfail" => calls.radd = 1

\* the set_idle after a failed recovery add leaves cache.rules as loaded
FailedAddNotCommitted ==
    (pc[1] = "rec_fail" /\ pc'[1] = "config") =>
        cache'[1].rules = cache[1].rules

\* recovery from Adding, with or without a pending key
FromAddingOrNoKey == FromAdding \/ rec[1] = "nopending"

IdleInMemory == cache[1].state = "Idle" /\ cache[1].pending = {}

RecoverFromDeleting ==
    pc[1] = "recover" /\ cache[1].state = "Deleting" /\ pc'[1] # "idle"

\* C18: recovery from a loaded Deleting state issues no firewall call (no
\* existence check, no add, no delete), leaves the live rules and
\* cache.rules as they are, and sets the operation to Idle with no pending
\* key, after which the configuration is read.
C18_RecoveryFromDeletingOnlyIdles ==
    /\ [][RecoverFromDeleting =>
            /\ calls' = calls
            /\ fw' = fw
            /\ cache'[1] = [state |-> "Idle", rules |-> cache[1].rules,
                            pending |-> {}]
            /\ pc'[1] = "config"]_vars
    /\ []((RecoveryDone /\ rec[1] = "deleting") =>
            calls = NoCalls)

\* recovery has returned from a loaded Deleting state whose pending key is
\* still in the firewall and in cache.rules
C18_Witness ==
    /\ RecoveryDone
    /\ rec[1] = "deleting"
    /\ \E k \in recK[1] : fw[k] > 0 /\ k \in cache[1].rules

\* ---------------------------------------------------------------------
\* A failed delete (Spec)
\* ---------------------------------------------------------------------

\* delete_rule returned false: the firewall and the Cache are as before
DeleteFails(p) ==
    (pc[p] = "p3_del" /\ pc'[p] = "p3_fail") => (fw' = fw /\ cache' = cache)

\* the else arm after a failed delete: set_idle, the key stays in
\* cache.rules and in the firewall, and the loop goes to the next rule of
\* the snapshot that is not desired, if there is one
AfterFailedDelete(p) ==
    (pc[p] = "p3_fail" /\ pc'[p] \notin {"p3_fail", "idle"}) =>
        /\ cache'[p].state = "Idle" /\ cache'[p].pending = {}
        /\ cache'[p].rules = cache[p].rules
        /\ cur[p] \subseteq cache'[p].rules
        /\ fw' = fw
        /\ pc'[p] = IF todo[p] \ desired[p] # {} THEN "p3" ELSE "fin"

\* at the end of the run a delete was issued for every rule of the snapshot
\* that is not desired, and the rules whose delete failed are known rules
AllUndesiredVisited(p) ==
    Completed(p) =>
        /\ existing[p] \ desired[p] \subseteq dels[p]
        /\ delFail[p] \subseteq cache[p].rules

\* C19: when delete_rule(k) fails in Phase 3, the firewall is unchanged,
\* the operation goes back to Idle, k stays in cache.rules, and the phase
\* goes on with the remaining rules of the snapshot that are not desired:
\* by the end of the run a delete was issued for each of them.
C19_FailedDeleteKeepsRuleAndGoesOn ==
    /\ [][\A p \in Procs : DeleteFails(p) /\ AfterFailedDelete(p)]_vars
    /\ [](\A p \in Procs : AllUndesiredVisited(p))

\* a completed run in which one delete failed, its rule still in the
\* firewall, and another rule was deleted
C19_Witness ==
    \E p \in Procs :
        /\ Completed(p)
        /\ \E k \in delFail[p] : fw[k] > 0 /\ k \in cache[p].rules
        /\ dels[p] \ delFail[p] # {}

\* ---------------------------------------------------------------------
\* The calls of Phase 2 and Phase 3 (SpecCalls)
\* ---------------------------------------------------------------------

\* C20: in one run Phase 2 issues at most two add_rule calls for a key, and
\* none for a key it has already added; Phase 3 issues at most one
\* delete_rule call for a key.
C20_RetryBound ==
    /\ \A k \in Keys : calls.add[k] <= 2 /\ calls.del[k] <= 1
    /\ ~calls.again

\* ---------------------------------------------------------------------
\* Abandoned threads (SpecLate)
\* ---------------------------------------------------------------------

\* the keys the entries of the run can resolve to
OwnAnswers(p) ==
    {k \in Keys : \E i \in 1..Len(entries[p]) :
        /\ k[2] = entries[p][i].port
        /\ k[1] \in Answers(entries[p][i].hostname)}

\* every key the run resolved, and every desired rule that was not already
\* in the listing, is an answer to one of its own entries
ResultsAreOwn ==
    \A p \in Procs :
        /\ resolvedK[p] \subseteq OwnAnswers(p)
        /\ desired[p] \subseteq OwnAnswers(p) \cup existing[p]

\* the end of an abandoned resolver thread changes nothing of the run
LateAnswerIsLost ==
    \A p \in Procs :
        (late'[p] # late[p] /\ late'[p] \subseteq late[p] /\ pc'[p] # "idle")
            => UNCHANGED <<envVars, progVars>>

\* a run that gave up on the lock has the lock on its open file only while
\* its abandoned thread is inside flock, has touched nothing, and holds
\* nothing once its process is gone
LateGrantIsGivenBack ==
    \A p \in Procs :
        /\ (lock = p /\ outcome[p] = "nolock") =>
               (worker[p] = "granted" /\ pc[p] = "ret")
        /\ outcome[p] = "nolock" => ~touched[p]
        /\ pc[p] = "idle" => (lock # p /\ worker[p] = "none")

\* C21: a thread abandoned at a timeout changes nothing of the run: what a
\* resolver thread sends late is received by no later call and alters
\* neither the desired rules nor the queue, and a lock granted late to
\* the abandoned flock thread is used by nobody and is released when the
\* thread returns or the process exits.
C21_AbandonedThreadsAreHarmless ==
    /\ [](ResultsAreOwn)
    /\ [](LateGrantIsGivenBack)
    /\ [][LateAnswerIsLost]_vars

\* the flock thread of a run that gave up was granted the lock while another
\* run waits for it, after a late resolver result had been lost
C21_Witness ==
    \E p, q \in Procs :
        /\ worker[p] = "granted" /\ lock = p /\ outcome[p] = "nolock"
        /\ pc[q] = "wait"
        /\ dropped

\* ---------------------------------------------------------------------
\* Release of the lock (SpecLive)
\* ---------------------------------------------------------------------

\* the ways a run that acquired the lock ends
ExitPaths == {"noiptables", "noentries", "complete"}

\* the end of a run that has the lock, by any of its exit paths, frees it
ExitReleases ==
    \A p \in Procs :
        (pc[p] = "ret" /\ pc'[p] = "idle" /\ lock = p) =>
            (outcome[p] \in ExitPaths /\ lock' = 0)

C23_NoSecondCopy ==
    /\ \A k \in Keys : fw[k] <= 1
    /\ \A p \in Procs : IssuesAdd(p) => \A k \in cur[p] : fw[k] = 0

\* ---------------------------------------------------------------------
\* Convergence (Spec)
\* ---------------------------------------------------------------------

\* the run had a configuration, every entry resolved, the listing returned
\* the tagged rules that were there (those present when the run began and
\* the one recovery added), no add was given up, no delete failed
FullSuccess(p) ==
    /\ Completed(p)
    /\ entries[p] # <<>>
    /\ dnsFail[p] = {}
    /\ existing[p] = fw0[p] \cup (IF rec[p] = "added" THEN recK[p] ELSE {})
    /\ addFail[p] = {}
    /\ delFail[p] = {}

\* C24: after a run with a non-empty configuration in which every
\* resolution and every firewall call succeeded, the tagged rules in the
\* firewall are exactly the keys its entries resolved to.
C24_FullSuccessConverges ==
    \A p \in Procs : FullSuccess(p) => Live = resolvedK[p]

\* The run is past parse_config and its configuration had no entries.
BeforeConfig ==
    {"idle", "wait", "find", "load", "recover", "rec_add", "rec_commit",
     "rec_fail", "config"}

EmptyConfigRun ==
    /\ pc[1] \notin BeforeConfig
    /\ entries[1] = <<>>
    /\ outcome[1] \notin {"nolock", "notroot", "noiptables"}

\* what recovery added to the firewall in this run
RecoveryAdded == IF rec[1] = "added" THEN recK[1] ELSE {}

\* Such a run has returned, and it has called neither get_existing_rules nor
\* delete_rule nor add_rule, apart from the one add_rule of recovery; the
\* firewall holds what it held at the start and what recovery added.
EmptyRunEndsAfterRecovery ==
    EmptyConfigRun =>
        /\ pc[1] = "ret" /\ outcome[1] = "noentries"
        /\ calls.list = 0
        /\ \A k \in Keys : calls.add[k] = 0 /\ calls.del[k] = 0
        /\ ~calls.again
        /\ calls.radd <= 1
        /\ calls.radd = 1 <=> rec[1] \in {"added", "addfail"}
        /\ fw0[1] \subseteq Live
        /\ Live \subseteq fw0[1] \cup RecoveryAdded
        /\ existing[1] = {} /\ todo[1] = {}

\* The return on the empty configuration is taken from parse_config and
\* changes neither the firewall nor the cache, in memory or on disk.
EmptyReturnChangesNothing ==
    (pc'[1] = "ret" /\ outcome'[1] = "noentries") =>
        /\ pc[1] = "config"
        /\ UNCHANGED <<fw, disk, cache, calls>>

\* Before parse_config the rules of the cache are only extended, by the key
\* recovery had pending, and no copy of a rule leaves the firewall.
RecoveryKeepsRules ==
    (pc[1] \in BeforeConfig /\ pc'[1] \in BeforeConfig \ {"idle", "wait"}
        /\ pc[1] \notin {"idle", "wait", "find", "load"}) =>
        /\ cache[1].rules \subseteq cache'[1].rules
        /\ cache'[1].rules \subseteq cache[1].rules \cup recK'[1]
        /\ \A k \in Keys : fw'[k] >= fw[k]
        /\ fw' # fw => pc[1] = "rec_add"

\* C25: a run whose configuration yields no entries ends right after
\* recovery: it issues no listing call, no deleteRule call and no addRule
\* call other than the one recovery may issue, it does not overwrite the
\* known rules, and every tagged rule of the live firewall stays in place.
C25_EmptyConfigRunChangesNothing ==
    /\ [](EmptyRunEndsAfterRecovery)
    /\ [][EmptyReturnChangesNothing]_vars
    /\ [][RecoveryKeepsRules]_vars

\* an empty-configuration run that has returned after recovery re-added its
\* pending rule to a firewall that held tagged rules at the start
C25_Witness ==
    /\ EmptyConfigRun
    /\ pc[1] = "ret" /\ outcome[1] = "noentries"
    /\ rec[1] = "added" /\ calls.radd = 1
    /\ fw0[1] # {}
    /\ cache[1].rules # {}

====
